---- MODULE Spec2Model ----
(***************************************************************************)
(* Client-side CRUD synchronisation of the "buddy" components.             *)
(*                                                                         *)
(* Two variants of the component are modelled side by side; `variant`      *)
(* selects which one a behaviour runs:                                     *)
(*   "patch"  - src/unnamed/part_000: patches the local list after each    *)
(*              successful request (identifiers prefixed P_);              *)
(*   "relist" - src/src/lib/BuddyTable.svelte: re-issues fetchBuddies      *)
(*              after each successful request (identifiers prefixed R_).   *)
(*                                                                         *)
(* Every async function is split at its awaits: the part up to the fetch   *)
(* is one action, the continuation that runs when the fetch settles is     *)
(* another (suffix _resume).  Handlers are enabled only while the control  *)
(* that triggers them is rendered by the template.                         *)
(***************************************************************************)
EXTENDS Integers, Sequences, FiniteSets, TLC

VARIABLES variant,    \* which component is running
          buddies,    \* let buddies: Buddy[]
          isLoading,  \* let isLoading
          error,      \* let error: string | null
          newName,    \* let newName
          newAge,     \* let newAge
          editing,    \* editingId (patch) / editingBuddy.id (relist, the only field read)
          editName,   \* let editName
          editAge,    \* let editAge
          mounted,    \* onMount callback has run
          net,        \* requests in flight (sent, or answered and not yet delivered)
          nreq,       \* number of requests sent so far
          ninput,     \* number of input events so far
          db,         \* the remote collection
          nextId,     \* the remote collection's next identifier
          last        \* the component's last step: what ran, on which request, what it alerted

vars == <<variant, buddies, isLoading, error, newName, newAge, editing,
          editName, editAge, mounted, net, nreq, ninput, db, nextId, last>>

client == <<buddies, isLoading, error, newName, newAge, editing, editName, editAge>>

----------------------------------------------------------------------------
(* Bounds *)

MaxRequests == 3     \* requests sent in a behaviour, the mount's included
MaxInputs   == 2     \* input events (one field changed by the user)
MaxAge      == 45    \* ages shown in a badge: 0..MaxAge
MaxDigits   == 2     \* characters of an age held as text

----------------------------------------------------------------------------
(* Values *)

EmptyAge == -1       \* the '' / null content of a number input
Names    == {"", "c"}  \* what the user types into a name input
Ages     == {0, 3}     \* what the user types into an age input

NoError  == "null"   \* error = null
NoEdit   == 0         \* editingId = null / editingBuddy = null
NoBuddy  == [id |-> 0, name |-> "", age |-> EmptyAge]   \* absent record in a response

Buddy(i, n, a) == [id |-> i, name |-> n, age |-> a]

\* !newName, !editName
FalsyName(n) == n = ""
\* !newAge, !editAge : '' (or null) and the number 0 are falsy
FalsyAge(a) == a = EmptyAge \/ a = 0

Ids(s) == {s[k].id : k \in 1..Len(s)}

----------------------------------------------------------------------------
(* Requests *)

Req(k, i, n, a, c) ==
    [seq |-> nreq + 1, kind |-> k, id |-> i, name |-> n, age |-> a, caller |-> c,
     stage |-> "sent", ok |-> FALSE, parse |-> FALSE, list |-> <<>>, received |-> NoBuddy]

\* the component's state as a handler finds it
Pre == [buddies |-> buddies, isLoading |-> isLoading, error |-> error,
        newName |-> newName, newAge |-> newAge,
        editing |-> editing, editName |-> editName, editAge |-> editAge,
        nreq |-> nreq]

NoPre == [buddies |-> <<>>, isLoading |-> FALSE, error |-> NoError,
          newName |-> "", newAge |-> EmptyAge,
          editing |-> NoEdit, editName |-> "", editAge |-> EmptyAge,
          nreq |-> 0]

\* a step of the component: the handler part that ran, the request whose
\* fetch settled (NoReq if none), whether that fetch was rejected, whether
\* alert(...) was called, and the state the handler found (kept for the
\* handlers that return early or continue after an await)
Step(k, r, rej, al, pre) ==
    [kind |-> k, req |-> r, rejected |-> rej, alert |-> al, pre |-> pre]

NoReq == [seq |-> 0, kind |-> "none", id |-> 0, name |-> "", age |-> EmptyAge,
          caller |-> "none", stage |-> "sent", ok |-> FALSE, parse |-> FALSE,
          list |-> <<>>, received |-> NoBuddy]

\* the fetch promise of r can settle: rejected (transport failure) at any
\* time, fulfilled once the server has answered
Settles(r, rejected) == r \in net /\ (rejected \/ r.stage = "done")

----------------------------------------------------------------------------
(* The remote collection (spec section 6): it answers each request once,   *)
(* atomically, at some moment between the send and the delivery.           *)

InitialDbs == { <<>>, <<Buddy(1, "a", 1), Buddy(2, "b", 2)>> }

Answer(r, isOk, canParse, l, rec) ==
    [r EXCEPT !.stage = "done", !.ok = isOk, !.parse = canParse,
              !.list = l, !.received = rec]

DbReplace(s, i, n, a) == [k \in 1..Len(s) |-> IF s[k].id = i THEN Buddy(i, n, a) ELSE s[k]]
DbRemove(s, i) == SelectSeq(s, LAMBDA b : b.id # i)

\* GET /readJSON : JSON array of the records
ServerList(r) ==
    /\ r \in net /\ r.stage = "sent" /\ r.kind = "GET"
    /\ \E canParse \in BOOLEAN :
         net' = (net \ {r}) \cup {Answer(r, TRUE, canParse, db, NoBuddy)}
    /\ UNCHANGED <<db, nextId>>

\* POST /writeJSON : stores the record under a fresh id, answers {received: record}
ServerCreate(r) ==
    /\ r \in net /\ r.stage = "sent" /\ r.kind = "POST"
    /\ LET rec == Buddy(nextId, r.name, r.age) IN
       /\ \E canParse \in BOOLEAN :
            net' = (net \ {r}) \cup {Answer(r, TRUE, canParse, <<>>, rec)}
       /\ db' = Append(db, rec)
       /\ nextId' = nextId + 1

\* PUT /editJSON/{id} : replaces the record's fields; 2xx, body optional
ServerUpdate(r) ==
    /\ r \in net /\ r.stage = "sent" /\ r.kind = "PUT"
    /\ r.id \in Ids(db)
    /\ \E body \in BOOLEAN :
         net' = (net \ {r}) \cup {Answer(r, TRUE, body, <<>>, NoBuddy)}
    /\ db' = DbReplace(db, r.id, r.name, r.age)
    /\ UNCHANGED nextId

\* DELETE /deleteJSON/{id}
ServerDelete(r) ==
    /\ r \in net /\ r.stage = "sent" /\ r.kind = "DELETE"
    /\ r.id \in Ids(db)
    /\ net' = (net \ {r}) \cup {Answer(r, TRUE, TRUE, <<>>, NoBuddy)}
    /\ db' = DbRemove(db, r.id)
    /\ UNCHANGED nextId

\* any request can be answered with a non-2xx status and a JSON error body;
\* the collection is then unchanged
ServerReject(r) ==
    /\ r \in net /\ r.stage = "sent"
    /\ net' = (net \ {r}) \cup {Answer(r, FALSE, TRUE, <<>>, NoBuddy)}
    /\ UNCHANGED <<db, nextId>>

Server ==
    /\ \E r \in net : \/ ServerList(r)
                      \/ ServerCreate(r)
                      \/ ServerUpdate(r)
                      \/ ServerDelete(r)
                      \/ ServerReject(r)
    /\ UNCHANGED <<variant, client, mounted, nreq, ninput, last>>

----------------------------------------------------------------------------
(* State after the component's script has run *)

Init ==
    /\ variant \in {"patch", "relist"}
    /\ buddies = <<>>
    /\ isLoading = TRUE
    /\ error = NoError
    /\ newName = ""
    /\ newAge = EmptyAge
    /\ editing = NoEdit
    /\ editName = ""
    /\ editAge = EmptyAge
    /\ mounted = FALSE
    /\ net = {}
    /\ nreq = 0
    /\ ninput = 0
    /\ db \in InitialDbs
    /\ nextId = 3
    /\ last = Step("init", NoReq, FALSE, FALSE, NoPre)

\* fetch(...): the request goes on the wire.  A handler of the relist
\* variant sends only when there is room for the fetchBuddies() that follows
\* its success.
Send(r) ==
    /\ net' = net \cup {r}
    /\ nreq' = nreq + 1

\* a handler that returns before its fetch
NoSend == UNCHANGED <<net, nreq>>

\* the awaited fetch has settled and its request leaves the wire
Settled(r) ==
    /\ net' = net \ {r}
    /\ UNCHANGED nreq

Fixed == UNCHANGED <<variant, ninput, db, nextId>>

----------------------------------------------------------------------------
(* Variant "patch": src/unnamed/part_000                                    *)

\* {#if isLoading} ... {:else if error} ... {:else} form and grid
P_FormShown == variant = "patch" /\ ~isLoading /\ error = NoError
\* {#each buddies as buddy} {#if editingId === buddy.id} inputs, Save, Cancel
P_EditRowShown(b) == P_FormShown /\ b \in Ids(buddies) /\ editing = b
\* {:else} Edit, Delete
P_ViewRowShown(b) == P_FormShown /\ b \in Ids(buddies) /\ editing # b

\* onMount(fetchBuddies), up to the await
P_fetchBuddies ==
    /\ variant = "patch" /\ ~mounted
    /\ mounted' = TRUE
    /\ isLoading' = TRUE
    /\ Send(Req("GET", 0, "", EmptyAge, "mount"))
    /\ last' = Step("send", NoReq, FALSE, FALSE, NoPre)
    /\ UNCHANGED <<buddies, error, newName, newAge, editing, editName, editAge>>
    /\ Fixed

\* fetchBuddies without its finally: the flag is cleared on success only
P_fetchBuddies_resume_spinning(r, rejected) ==
    /\ variant = "patch" /\ r.kind = "GET" /\ Settles(r, rejected)
    /\ LET threw == rejected \/ ~r.ok \/ ~r.parse IN
       /\ buddies' = IF threw THEN buddies ELSE r.list
       /\ error' = IF threw THEN "Failed to load buddies" ELSE error
       /\ last' = Step(IF threw THEN "listFail" ELSE "listOk", r, rejected, FALSE, Pre)
       /\ isLoading' = threw
    /\ Settled(r)
    /\ UNCHANGED <<newName, newAge, editing, editName, editAge, mounted>>
    /\ Fixed

\* fetchBuddies calling itself again from its catch
P_fetchBuddies_resume_retrying(r, rejected) ==
    /\ variant = "patch" /\ r.kind = "GET" /\ Settles(r, rejected)
    /\ LET threw == rejected \/ ~r.ok \/ ~r.parse
           again == threw /\ nreq < MaxRequests
       IN
       /\ buddies' = IF threw THEN buddies ELSE r.list
       /\ error' = IF threw THEN "Failed to load buddies" ELSE error
       /\ last' = Step(IF threw THEN "listFail" ELSE "listOk", r, rejected, FALSE, Pre)
       /\ isLoading' = again
       /\ net' = (net \ {r}) \cup (IF again THEN {Req("GET", 0, "", EmptyAge, "mount")} ELSE {})
       /\ nreq' = IF again THEN nreq + 1 ELSE nreq
    /\ UNCHANGED <<newName, newAge, editing, editName, editAge, mounted>>
    /\ Fixed

\* fetchBuddies after the await: try / catch / finally
P_fetchBuddies_resume(r, rejected) ==
    /\ variant = "patch" /\ r.kind = "GET" /\ Settles(r, rejected)
    /\ LET threw == rejected \/ ~r.ok \/ ~r.parse IN
       /\ buddies' = IF threw THEN buddies ELSE r.list
       /\ error' = IF threw THEN "Failed to load buddies" ELSE error
       /\ last' = Step(IF threw THEN "listFail" ELSE "listOk", r, rejected, FALSE, Pre)
    /\ isLoading' = FALSE
    /\ Settled(r)
    /\ UNCHANGED <<newName, newAge, editing, editName, editAge, mounted>>
    /\ Fixed

\* addBuddy without its guard: the request is sent whatever the inputs hold
P_addBuddy_unguarded ==
    /\ P_FormShown
    /\ nreq < MaxRequests
    /\ Send(Req("POST", 0, newName, newAge, "add"))
    /\ last' = Step("send", NoReq, FALSE, FALSE, NoPre)
    /\ UNCHANGED <<client, mounted>>
    /\ Fixed

\* addBuddy up to the await
P_addBuddy ==
    /\ P_FormShown
    /\ IF FalsyName(newName) \/ FalsyAge(newAge)
       THEN /\ NoSend
            /\ last' = Step("addNoop", NoReq, FALSE, FALSE, Pre)
       ELSE /\ nreq < MaxRequests
            /\ Send(Req("POST", 0, newName, newAge, "add"))
            /\ last' = Step("send", NoReq, FALSE, FALSE, NoPre)
    /\ UNCHANGED <<client, mounted>>
    /\ Fixed

\* the new record put in front
P_Prepend(s, rec) == <<rec>> \o s

\* [...buddies, data.received]
P_Append(s, rec) == Append(s, rec)

\* addBuddy after the await: res.json(), then res.ok
P_addBuddy_resume(r, rejected) ==
    /\ variant = "patch" /\ r.kind = "POST" /\ Settles(r, rejected)
    /\ LET threw == rejected \/ ~r.parse IN
       IF ~threw /\ r.ok
       THEN /\ buddies' = P_Append(buddies, r.received)
            /\ newName' = ""
            /\ newAge' = EmptyAge
            /\ last' = Step("addOk", r, rejected, FALSE, Pre)
       ELSE /\ UNCHANGED <<buddies, newName, newAge>>
            /\ last' = Step("addFail", r, rejected, TRUE, Pre)
    /\ Settled(r)
    /\ UNCHANGED <<isLoading, error, editing, editName, editAge, mounted>>
    /\ Fixed

\* deleteBuddy(id) ignoring the answer to confirm(...): the request is sent
\* whether the user said yes or no
P_deleteBuddy_unconfirmed(id, confirmed) ==
    /\ P_ViewRowShown(id)
    /\ nreq < MaxRequests
    /\ Send(Req("DELETE", id, "", EmptyAge, "delete"))
    /\ last' = IF confirmed THEN Step("deleteConfirmed", NoReq, FALSE, FALSE, NoPre)
                            ELSE Step("deleteDeclined", NoReq, FALSE, FALSE, Pre)
    /\ UNCHANGED <<client, mounted>>
    /\ Fixed

\* deleteBuddy(id) up to the await; confirm(...) is answered by the user
P_deleteBuddy(id, confirmed) ==
    /\ P_ViewRowShown(id)
    /\ IF ~confirmed
       THEN /\ NoSend
            /\ last' = Step("deleteDeclined", NoReq, FALSE, FALSE, Pre)
       ELSE /\ nreq < MaxRequests
            /\ Send(Req("DELETE", id, "", EmptyAge, "delete"))
            /\ last' = Step("deleteConfirmed", NoReq, FALSE, FALSE, NoPre)
    /\ UNCHANGED <<client, mounted>>
    /\ Fixed

P_Filter(s, id) == SelectSeq(s, LAMBDA b : b.id # id)

\* deleteBuddy dropping the record before it looks at the response
P_deleteBuddy_resume_optimistic(r, rejected) ==
    /\ variant = "patch" /\ r.kind = "DELETE" /\ Settles(r, rejected)
    /\ buddies' = P_Filter(buddies, r.id)
    /\ last' = Step(IF ~rejected /\ r.ok THEN "deleteOk" ELSE "deleteFail", r, rejected,
                    ~(~rejected /\ r.ok), Pre)
    /\ Settled(r)
    /\ UNCHANGED <<isLoading, error, newName, newAge, editing, editName, editAge, mounted>>
    /\ Fixed

\* deleteBuddy after the await: res.ok, else res.json() and alert
P_deleteBuddy_resume(r, rejected) ==
    /\ variant = "patch" /\ r.kind = "DELETE" /\ Settles(r, rejected)
    /\ IF ~rejected /\ r.ok
       THEN /\ buddies' = P_Filter(buddies, r.id)
            /\ last' = Step("deleteOk", r, rejected, FALSE, Pre)
       ELSE /\ UNCHANGED buddies
            /\ last' = Step("deleteFail", r, rejected, TRUE, Pre)
    /\ Settled(r)
    /\ UNCHANGED <<isLoading, error, newName, newAge, editing, editName, editAge, mounted>>
    /\ Fixed

\* startEdit(buddy)
P_startEdit(k) ==
    /\ k \in 1..Len(buddies) /\ P_ViewRowShown(buddies[k].id)
    /\ editing' = buddies[k].id
    /\ editName' = buddies[k].name
    /\ editAge' = buddies[k].age
    /\ last' = Step("startEdit", NoReq, FALSE, FALSE, Pre)
    /\ NoSend
    /\ UNCHANGED <<buddies, isLoading, error, newName, newAge, mounted>>
    /\ Fixed

\* saveEdit(id) up to the await
P_saveEdit(id) ==
    /\ P_EditRowShown(id)
    /\ IF FalsyName(editName) \/ FalsyAge(editAge)
       THEN /\ NoSend
            /\ last' = Step("saveNoop", NoReq, FALSE, FALSE, Pre)
       ELSE /\ nreq < MaxRequests
            /\ Send(Req("PUT", id, editName, editAge, "update"))
            /\ last' = Step("send", NoReq, FALSE, FALSE, NoPre)
    /\ UNCHANGED <<client, mounted>>
    /\ Fixed

\* buddies.map(b => b.id === id ? { id, name: editName, age: editAge } : b)
P_Map(s, id, n, a) == [k \in 1..Len(s) |-> IF s[k].id = id THEN Buddy(id, n, a) ELSE s[k]]

\* saveEdit after the await: res.json(), then res.ok; editName and editAge
\* are read here, when the continuation runs
P_saveEdit_resume(r, rejected) ==
    /\ variant = "patch" /\ r.kind = "PUT" /\ Settles(r, rejected)
    /\ LET threw == rejected \/ ~r.parse IN
       IF ~threw /\ r.ok
       THEN /\ buddies' = P_Map(buddies, r.id, editName, editAge)
            /\ editing' = NoEdit
            /\ last' = Step("saveOk", r, rejected, FALSE, Pre)
       ELSE /\ UNCHANGED <<buddies, editing>>
            /\ last' = Step("saveFail", r, rejected, TRUE, Pre)
    /\ Settled(r)
    /\ UNCHANGED <<isLoading, error, newName, newAge, editName, editAge, mounted>>
    /\ Fixed

\* cancelEdit() that writes the buffers into the record before it leaves
P_cancelEdit_commits ==
    /\ \E b \in Ids(buddies) : P_EditRowShown(b)
    /\ buddies' = P_Map(buddies, editing, editName, editAge)
    /\ editing' = NoEdit
    /\ last' = Step("cancelEdit", NoReq, FALSE, FALSE, NoPre)
    /\ NoSend
    /\ UNCHANGED <<isLoading, error, newName, newAge, editName, editAge, mounted>>
    /\ Fixed

\* cancelEdit()
P_cancelEdit ==
    /\ \E b \in Ids(buddies) : P_EditRowShown(b)
    /\ editing' = NoEdit
    /\ last' = Step("cancelEdit", NoReq, FALSE, FALSE, NoPre)
    /\ NoSend
    /\ UNCHANGED <<buddies, isLoading, error, newName, newAge, editName, editAge, mounted>>
    /\ Fixed

----------------------------------------------------------------------------
(* Variant "relist": src/src/lib/BuddyTable.svelte                          *)

\* the add form is always rendered (onMount has run before the first user
\* event); the button carries disabled={!newName || !newAge}
R_FormShown == variant = "relist" /\ mounted
R_AddEnabled == R_FormShown /\ ~(FalsyName(newName) \/ FalsyAge(newAge))
\* {#if isLoading} spinner {:else if buddies.length > 0} grid
R_GridShown == R_FormShown /\ ~isLoading
\* {#if editingBuddy && editingBuddy.id === buddy.id} inputs, Save, Cancel
R_EditRowShown(b) == R_GridShown /\ b \in Ids(buddies) /\ editing # NoEdit /\ editing = b
\* {:else} Edit, Delete
R_ViewRowShown(b) == R_GridShown /\ b \in Ids(buddies) /\ ~(editing # NoEdit /\ editing = b)

\* Number(b.id): the identifiers on the wire are JSON numbers
ToNumber(x) == x

\* data.map(b => ({ ...b, id: Number(b.id) }))
R_Map(data) == [k \in 1..Len(data) |-> [data[k] EXCEPT !.id = ToNumber(data[k].id)]]

\* `await fetchBuddies()` inside the continuation that handles r: the call
\* runs up to its own await in the same step.  The new request remembers
\* its caller and the record `of` the caller was about (bookkeeping of the
\* pending call, not part of the request).
R_CallFetchBuddies(r, caller, of) ==
    /\ isLoading' = TRUE
    /\ error' = NoError
    /\ net' = (net \ {r}) \cup {Req("GET", of.id, of.name, of.age, caller)}
    /\ nreq' = nreq + 1

\* onMount(fetchBuddies), up to the await
R_fetchBuddies ==
    /\ variant = "relist" /\ ~mounted
    /\ mounted' = TRUE
    /\ isLoading' = TRUE
    /\ error' = NoError
    /\ Send(Req("GET", 0, "", EmptyAge, "mount"))
    /\ last' = Step("send", NoReq, FALSE, FALSE, NoPre)
    /\ UNCHANGED <<buddies, newName, newAge, editing, editName, editAge>>
    /\ Fixed
\* fetchBuddies with a sequencing guard: a response is dropped when a
\* request has been started after its own
R_fetchBuddies_resume_sequenced(r, rejected) ==
    /\ variant = "relist" /\ r.kind = "GET" /\ Settles(r, rejected)
    /\ LET threw == rejected \/ ~r.ok \/ ~r.parse IN
       /\ buddies' = IF threw \/ r.seq < nreq THEN buddies ELSE R_Map(r.list)
       /\ error' = IF threw THEN "Error fetching data" ELSE error
       /\ last' = Step(IF threw THEN "listFail" ELSE "listOk", r, rejected, FALSE, Pre)
    /\ isLoading' = FALSE
    /\ Settled(r)
    /\ UNCHANGED <<newName, newAge, editing, editName, editAge, mounted>>
    /\ Fixed

\* fetchBuddies merging the response into the collection: the records it
\* had and the response does not mention are kept in front
R_fetchBuddies_resume_merging(r, rejected) ==
    /\ variant = "relist" /\ r.kind = "GET" /\ Settles(r, rejected)
    /\ LET threw == rejected \/ ~r.ok \/ ~r.parse
           kept == SelectSeq(buddies, LAMBDA b : b.id \notin Ids(r.list))
       IN
       /\ buddies' = IF threw THEN buddies ELSE kept \o R_Map(r.list)
       /\ error' = IF threw THEN "Error fetching data" ELSE error
       /\ last' = Step(IF threw THEN "listFail" ELSE "listOk", r, rejected, FALSE, Pre)
    /\ isLoading' = FALSE
    /\ Settled(r)
    /\ UNCHANGED <<newName, newAge, editing, editName, editAge, mounted>>
    /\ Fixed

\* fetchBuddies emptying the collection when the request fails
R_fetchBuddies_resume_clearing(r, rejected) ==
    /\ variant = "relist" /\ r.kind = "GET" /\ Settles(r, rejected)
    /\ LET threw == rejected \/ ~r.ok \/ ~r.parse IN
       /\ buddies' = IF threw THEN <<>> ELSE R_Map(r.list)
       /\ error' = IF threw THEN "Error fetching data" ELSE error
       /\ last' = Step(IF threw THEN "listFail" ELSE "listOk", r, rejected, FALSE, Pre)
    /\ isLoading' = FALSE
    /\ Settled(r)
    /\ UNCHANGED <<newName, newAge, editing, editName, editAge, mounted>>
    /\ Fixed

\* fetchBuddies after the await: try / catch / finally
R_fetchBuddies_resume(r, rejected) ==
    /\ variant = "relist" /\ r.kind = "GET" /\ Settles(r, rejected)
    /\ LET threw == rejected \/ ~r.ok \/ ~r.parse IN
       /\ buddies' = IF threw THEN buddies ELSE R_Map(r.list)
       /\ error' = IF threw THEN "Error fetching data" ELSE error
       /\ last' = Step(IF threw THEN "listFail" ELSE "listOk", r, rejected, FALSE, Pre)
    /\ isLoading' = FALSE
    /\ Settled(r)
    /\ UNCHANGED <<newName, newAge, editing, editName, editAge, mounted>>
    /\ Fixed

\* addBuddy up to the await
R_addBuddy ==
    /\ R_AddEnabled
    /\ IF FalsyName(newName) \/ FalsyAge(newAge)
       THEN /\ NoSend
            /\ last' = Step("addNoop", NoReq, FALSE, FALSE, Pre)
       ELSE /\ nreq + 1 < MaxRequests
            /\ Send(Req("POST", 0, newName, newAge, "add"))
            /\ last' = Step("send", NoReq, FALSE, FALSE, NoPre)
    /\ UNCHANGED <<client, mounted>>
    /\ Fixed

\* addBuddy after the await: response.ok, clear the inputs, fetchBuddies()
R_addBuddy_resume(r, rejected) ==
    /\ variant = "relist" /\ r.kind = "POST" /\ Settles(r, rejected)
    /\ IF ~rejected /\ r.ok
       THEN /\ newName' = ""
            /\ newAge' = EmptyAge
            /\ R_CallFetchBuddies(r, "add", r.received)
            /\ last' = Step("addRelist", r, rejected, FALSE, Pre)
       ELSE /\ error' = "Error adding buddy"
            /\ Settled(r)
            /\ UNCHANGED <<isLoading, newName, newAge>>
            /\ last' = Step("addFail", r, rejected, FALSE, Pre)
    /\ UNCHANGED <<buddies, editing, editName, editAge, mounted>>
    /\ Fixed

\* deleteBuddy(id) up to the await; confirm(...) is answered by the user
R_deleteBuddy(id, confirmed) ==
    /\ R_ViewRowShown(id)
    /\ IF ~confirmed
       THEN /\ NoSend
            /\ last' = Step("deleteDeclined", NoReq, FALSE, FALSE, Pre)
       ELSE /\ nreq + 1 < MaxRequests
            /\ Send(Req("DELETE", id, "", EmptyAge, "delete"))
            /\ last' = Step("deleteConfirmed", NoReq, FALSE, FALSE, NoPre)
    /\ UNCHANGED <<client, mounted>>
    /\ Fixed

\* deleteBuddy after the await: response.ok, fetchBuddies()
R_deleteBuddy_resume(r, rejected) ==
    /\ variant = "relist" /\ r.kind = "DELETE" /\ Settles(r, rejected)
    /\ IF ~rejected /\ r.ok
       THEN /\ R_CallFetchBuddies(r, "delete", Buddy(r.id, "", EmptyAge))
            /\ last' = Step("deleteRelist", r, rejected, FALSE, Pre)
       ELSE /\ error' = "Error deleting buddy"
            /\ Settled(r)
            /\ UNCHANGED isLoading
            /\ last' = Step("deleteFail", r, rejected, FALSE, Pre)
    /\ UNCHANGED <<buddies, newName, newAge, editing, editName, editAge, mounted>>
    /\ Fixed

\* startEdit(buddy) that moves edit mode and leaves the buffers as they are
R_startEdit_unsnapshotted(k) ==
    /\ k \in 1..Len(buddies) /\ R_ViewRowShown(buddies[k].id)
    /\ editing' = buddies[k].id
    /\ last' = Step("startEdit", NoReq, FALSE, FALSE, Pre)
    /\ NoSend
    /\ UNCHANGED <<buddies, isLoading, error, newName, newAge, editName, editAge, mounted>>
    /\ Fixed

\* startEdit(buddy)
R_startEdit(k) ==
    /\ k \in 1..Len(buddies) /\ R_ViewRowShown(buddies[k].id)
    /\ editing' = buddies[k].id
    /\ editName' = buddies[k].name
    /\ editAge' = buddies[k].age
    /\ last' = Step("startEdit", NoReq, FALSE, FALSE, Pre)
    /\ NoSend
    /\ UNCHANGED <<buddies, isLoading, error, newName, newAge, mounted>>
    /\ Fixed

\* saveEdit() up to the await: the only guard is !editingBuddy
R_saveEdit ==
    /\ \E b \in Ids(buddies) : R_EditRowShown(b)
    /\ IF editing = NoEdit
       THEN /\ NoSend
            /\ last' = Step("saveNoop", NoReq, FALSE, FALSE, Pre)
       ELSE /\ nreq + 1 < MaxRequests
            /\ Send(Req("PUT", editing, editName, editAge, "update"))
            /\ last' = Step("send", NoReq, FALSE, FALSE, NoPre)
    /\ UNCHANGED <<client, mounted>>
    /\ Fixed

\* saveEdit leaving edit mode whatever the response
R_saveEdit_resume_leaves(r, rejected) ==
    /\ variant = "relist" /\ r.kind = "PUT" /\ Settles(r, rejected)
    /\ editing' = NoEdit
    /\ IF ~rejected /\ r.ok
       THEN /\ R_CallFetchBuddies(r, "update", Buddy(r.id, r.name, r.age))
            /\ last' = Step("saveRelist", r, rejected, FALSE, Pre)
       ELSE /\ error' = "Error updating buddy"
            /\ Settled(r)
            /\ UNCHANGED isLoading
            /\ last' = Step("saveFail", r, rejected, FALSE, Pre)
    /\ UNCHANGED <<buddies, newName, newAge, editName, editAge, mounted>>
    /\ Fixed

\* saveEdit after the await: response.ok, editingBuddy = null, fetchBuddies()
R_saveEdit_resume(r, rejected) ==
    /\ variant = "relist" /\ r.kind = "PUT" /\ Settles(r, rejected)
    /\ IF ~rejected /\ r.ok
       THEN /\ editing' = NoEdit
            /\ R_CallFetchBuddies(r, "update", Buddy(r.id, r.name, r.age))
            /\ last' = Step("saveRelist", r, rejected, FALSE, Pre)
       ELSE /\ error' = "Error updating buddy"
            /\ Settled(r)
            /\ UNCHANGED <<isLoading, editing>>
            /\ last' = Step("saveFail", r, rejected, FALSE, Pre)
    /\ UNCHANGED <<buddies, newName, newAge, editName, editAge, mounted>>
    /\ Fixed

\* cancelEdit()
R_cancelEdit ==
    /\ \E b \in Ids(buddies) : R_EditRowShown(b)
    /\ editing' = NoEdit
    /\ last' = Step("cancelEdit", NoReq, FALSE, FALSE, NoPre)
    /\ NoSend
    /\ UNCHANGED <<buddies, isLoading, error, newName, newAge, editName, editAge, mounted>>
    /\ Fixed

----------------------------------------------------------------------------
(* The inputs: bind:value={newName}, {newAge}, {editName}, {editAge}        *)

NewInputsShown == P_FormShown \/ R_FormShown
EditInputsShown == \E b \in Ids(buddies) : P_EditRowShown(b) \/ R_EditRowShown(b)

Typed(k) ==
    /\ ninput < MaxInputs
    /\ ninput' = ninput + 1
    /\ last' = Step(k, NoReq, FALSE, FALSE, NoPre)
    /\ NoSend
    /\ UNCHANGED <<buddies, isLoading, error, editing, mounted, variant, db, nextId>>

bind_newName(v) ==
    /\ NewInputsShown /\ v # newName
    /\ newName' = v
    /\ UNCHANGED <<newAge, editName, editAge>>
    /\ Typed("input")

bind_newAge(v) ==
    /\ NewInputsShown /\ v # newAge
    /\ newAge' = v
    /\ UNCHANGED <<newName, editName, editAge>>
    /\ Typed("input")

bind_editName(v) ==
    /\ EditInputsShown /\ v # editName
    /\ editName' = v
    /\ UNCHANGED <<newName, newAge, editAge>>
    /\ Typed("input")

bind_editAge(v) ==
    /\ EditInputsShown /\ v # editAge
    /\ editAge' = v
    /\ UNCHANGED <<newName, newAge, editName>>
    /\ Typed("input")

----------------------------------------------------------------------------

Next ==
    \/ P_fetchBuddies
    \/ \E r \in net, rejected \in BOOLEAN : P_fetchBuddies_resume(r, rejected)
    \/ P_addBuddy
    \/ \E r \in net, rejected \in BOOLEAN : P_addBuddy_resume(r, rejected)
    \/ \E id \in Ids(buddies), confirmed \in BOOLEAN : P_deleteBuddy(id, confirmed)
    \/ \E r \in net, rejected \in BOOLEAN : P_deleteBuddy_resume(r, rejected)
    \/ \E k \in 1..Len(buddies) : P_startEdit(k)
    \/ \E id \in Ids(buddies) : P_saveEdit(id)
    \/ \E r \in net, rejected \in BOOLEAN : P_saveEdit_resume(r, rejected)
    \/ P_cancelEdit
    \/ R_fetchBuddies
    \/ \E r \in net, rejected \in BOOLEAN : R_fetchBuddies_resume(r, rejected)
    \/ R_addBuddy
    \/ \E r \in net, rejected \in BOOLEAN : R_addBuddy_resume(r, rejected)
    \/ \E id \in Ids(buddies), confirmed \in BOOLEAN : R_deleteBuddy(id, confirmed)
    \/ \E r \in net, rejected \in BOOLEAN : R_deleteBuddy_resume(r, rejected)
    \/ \E k \in 1..Len(buddies) : R_startEdit(k)
    \/ R_saveEdit
    \/ \E r \in net, rejected \in BOOLEAN : R_saveEdit_resume(r, rejected)
    \/ R_cancelEdit
    \/ \E v \in Names : bind_newName(v)
    \/ \E v \in Ages : bind_newAge(v)
    \/ \E v \in Names : bind_editName(v)
    \/ \E v \in Ages : bind_editAge(v)
    \/ Server

Spec == Init /\ [][Next]_vars

\* The life of the list requests: the steps that start a list request,
\* those that deliver one, and the steps that lead to them.  In the patch
\* variant fetchBuddies is called by onMount only and no other handler
\* assigns isLoading; in the relist variant every handler ends in
\* fetchBuddies().
LoadingNext ==
    \/ P_fetchBuddies
    \/ \E r \in net, rejected \in BOOLEAN : P_fetchBuddies_resume(r, rejected)
    \/ R_fetchBuddies
    \/ \E r \in net, rejected \in BOOLEAN : R_fetchBuddies_resume(r, rejected)
    \/ R_addBuddy
    \/ \E r \in net, rejected \in BOOLEAN : R_addBuddy_resume(r, rejected)
    \/ \E id \in Ids(buddies), confirmed \in BOOLEAN : R_deleteBuddy(id, confirmed)
    \/ \E r \in net, rejected \in BOOLEAN : R_deleteBuddy_resume(r, rejected)
    \/ \E k \in 1..Len(buddies) : R_startEdit(k)
    \/ R_saveEdit
    \/ \E r \in net, rejected \in BOOLEAN : R_saveEdit_resume(r, rejected)
    \/ R_cancelEdit
    \/ \E v \in Names : bind_newName(v)
    \/ \E v \in Ages : bind_newAge(v)
    \/ \E v \in Names : bind_editName(v)
    \/ \E v \in Ages : bind_editAge(v)
    \/ Server

\* the promise of a list fetch settles: fulfilled with the response, or
\* rejected
ListSettles ==
    \E r \in net, rejected \in BOOLEAN :
        P_fetchBuddies_resume(r, rejected) \/ R_fetchBuddies_resume(r, rejected)

\* onMount runs its callback once the component is in the page, and every
\* fetch settles
LoadingSpec ==
    /\ Init /\ [][LoadingNext]_vars
    /\ WF_vars(P_fetchBuddies \/ R_fetchBuddies)
    /\ WF_vars(ListSettles)

----------------------------------------------------------------------------
(* The age badge: class="age-badge {getAgeColor(buddy.age)}".  The patch   *)
(* variant holds ages as numbers, the relist variant declares them as text *)
(* and passes them through parseInt.                                       *)

\* getAgeColor of src/unnamed/part_000
P_getAgeColor(age) ==
    IF age < 20 THEN "color-young"
    ELSE IF age < 40 THEN "color-middle"
    ELSE "color-old"

DigitChars == <<"0", "1", "2", "3", "4", "5", "6", "7", "8", "9">>
IsDigit(c) == \E d \in 1..Len(DigitChars) : DigitChars[d] = c
DigitValue(c) == (CHOOSE d \in 1..Len(DigitChars) : DigitChars[d] = c) - 1

\* the characters of an age text: the digits and one that is not a digit
Chars == {DigitChars[d] : d \in 1..Len(DigitChars)} \cup {"x"}

RECURSIVE TextsUpTo(_)
TextsUpTo(n) ==
    IF n = 0 THEN {<<>>}
    ELSE LET shorter == TextsUpTo(n - 1)
         IN shorter \cup {Append(t, c) : t \in shorter, c \in Chars}

AgeTexts == TextsUpTo(MaxDigits)

\* the length of the longest prefix of t made of digits
RECURSIVE DigitPrefix(_)
DigitPrefix(t) ==
    IF t = <<>> \/ ~IsDigit(Head(t)) THEN 0 ELSE 1 + DigitPrefix(Tail(t))

\* the number a sequence of digits denotes
RECURSIVE DigitsValue(_)
DigitsValue(t) ==
    IF t = <<>> THEN 0
    ELSE 10 * DigitsValue(SubSeq(t, 1, Len(t) - 1)) + DigitValue(t[Len(t)])

\* parseInt(age): the digits at the front of the text, NaN when there are
\* none
ParseInt(t) ==
    LET p == DigitPrefix(t)
    IN IF p = 0 THEN [nan |-> TRUE, val |-> 0]
       ELSE [nan |-> FALSE, val |-> DigitsValue(SubSeq(t, 1, p))]

\* numAge < n : false when numAge is NaN
LessThan(numAge, n) == ~numAge.nan /\ numAge.val < n

\* getAgeColor with the first band closed at 20
R_getAgeColor_closed(age) ==
    LET numAge == ParseInt(age)
    IN IF ~numAge.nan /\ numAge.val <= 20 THEN "color-young"
       ELSE IF LessThan(numAge, 40) THEN "color-middle"
       ELSE "color-old"

\* getAgeColor of src/src/lib/BuddyTable.svelte
R_getAgeColor(age) ==
    LET numAge == ParseInt(age)
    IN IF LessThan(numAge, 20) THEN "color-young"
       ELSE IF LessThan(numAge, 40) THEN "color-middle"
       ELSE "color-old"

\* what a rendering of the badge of row k leaves behind
Badge(k, color) ==
    [kind |-> "getAgeColor", row |-> k, color |-> color, pre |-> Pre]

\* a listed collection of one record, its age a number (patch) or a text
\* (relist)
ColorInit ==
    /\ variant \in {"patch", "relist"}
    /\ \E age \in (IF variant = "patch" THEN 0..MaxAge ELSE AgeTexts) :
         /\ buddies = <<Buddy(1, "a", age)>>
         /\ db = buddies
    /\ isLoading = FALSE
    /\ error = NoError
    /\ newName = ""
    /\ newAge = EmptyAge
    /\ editing = NoEdit
    /\ editName = ""
    /\ editAge = EmptyAge
    /\ mounted = TRUE
    /\ net = {}
    /\ nreq = 1
    /\ ninput = 0
    /\ nextId = 3
    /\ last = Step("listOk", NoReq, FALSE, FALSE, NoPre)

\* the view row of buddies[k] is rendered (patch)
P_ageBadge(k) ==
    /\ k \in 1..Len(buddies) /\ P_ViewRowShown(buddies[k].id)
    /\ last' = Badge(k, P_getAgeColor(buddies[k].age))
    /\ NoSend
    /\ UNCHANGED <<client, mounted>>
    /\ Fixed

\* the view row of buddies[k] is rendered (relist)
R_ageBadge(k) ==
    /\ k \in 1..Len(buddies) /\ R_ViewRowShown(buddies[k].id)
    /\ last' = Badge(k, R_getAgeColor(buddies[k].age))
    /\ NoSend
    /\ UNCHANGED <<client, mounted>>
    /\ Fixed

ColorNext ==
    \/ \E k \in 1..Len(buddies) : P_ageBadge(k)
    \/ \E k \in 1..Len(buddies) : R_ageBadge(k)

ColorSpec == ColorInit /\ [][ColorNext]_vars

----------------------------------------------------------------------------
(* Vocabulary of the properties.  `last` describes the component's last    *)
(* step; the remote collection's steps leave it, and the component's       *)
(* state, alone.                                                           *)

\* the record a finished action was about: the one the POST created, the
\* one the PUT or DELETE named
SubjectId(r) == IF r.kind = "POST" THEN r.received.id ELSE r.id

\* the action `caller` has just finished: the patch variant's continuation
\* has patched the list (okKind), the relist variant's fetchBuddies() has
\* settled
Finished(okKind, caller) ==
    \/ last.kind = okKind
    \/ last.kind \in {"listOk", "listFail"} /\ last.req.caller = caller

\* the last step handled the settled fetch of a create, update or delete
Mutation == last.req.kind \in {"POST", "PUT", "DELETE"}

\* an error was surfaced by the last step: alert(...) in the patch variant,
\* the error banner in the relist variant
Surfaced == IF variant = "patch" THEN last.alert ELSE error # NoError

----------------------------------------------------------------------------
(* C1: after a successful update(id, name, age) the local record with that *)
(* id has exactly that name and age, its id unchanged, and every other     *)
(* record is as it was before, in both variants.                           *)

C1_UpdateReplacesFields ==
    Finished("saveOk", "update") =>
        LET r == last.req
            b == last.pre.buddies
        IN /\ Len(buddies) = Len(b)
           /\ \A k \in 1..Len(b) :
                /\ buddies[k].id = b[k].id
                /\ IF b[k].id = r.id
                   THEN buddies[k].name = r.name /\ buddies[k].age = r.age
                   ELSE buddies[k] = b[k]

(* C2: after a successful delete(id) (confirmed, DELETE answered 2xx), once *)
(* the action has finished no record with that id is in the local          *)
(* collection, in both variants.                                           *)

C2_DeletedRecordGone ==
    Finished("deleteOk", "delete") => last.req.id \notin Ids(buddies)

(* C3: after a successful create whose response carries the created        *)
(* record, once the action has finished the local collection has exactly   *)
(* one more record than before, and the extra record carries the           *)
(* server-assigned id, in both variants.                                   *)

C3_CreateAddsOneRecord ==
    Finished("addOk", "add") =>
        /\ Len(buddies) = Len(last.pre.buddies) + 1
        /\ SubjectId(last.req) \in Ids(buddies)
        /\ SubjectId(last.req) \notin Ids(last.pre.buddies)

(* C4: saveEdit is a no-op when the edit buffer for name or for age is     *)
(* empty/falsy: no PUT is sent (so none on the wire carries a falsy name   *)
(* or age), and a saveEdit that returns early leaves the collection and    *)
(* the edit mode unchanged, in both variants.                              *)

C4_SaveGuarded ==
    /\ \A r \in net : r.kind = "PUT" => ~FalsyName(r.name) /\ ~FalsyAge(r.age)
    /\ last.kind = "saveNoop" =>
         /\ buddies = last.pre.buddies
         /\ editing = last.pre.editing
         /\ nreq = last.pre.nreq

(* C5: addBuddy is a no-op when newName or newAge is empty/falsy: no POST  *)
(* is sent (so none on the wire carries a falsy name or age), and the      *)
(* addBuddy that returns early leaves the collection, the input buffers,   *)
(* the error flag and the edit mode unchanged.                             *)

C5_CreateGuarded ==
    /\ \A r \in net : r.kind = "POST" => ~FalsyName(r.name) /\ ~FalsyAge(r.age)
    /\ last.kind = "addNoop" =>
         /\ FalsyName(newName) \/ FalsyAge(newAge)
         /\ Pre = last.pre

\* addBuddy has just returned without a request on create("", 3), with the
\* two listed records still there
C5_WitnessEmptyName ==
    /\ last.kind = "addNoop" /\ newName = "" /\ newAge = 3
    /\ net = {} /\ nreq = 1 /\ Len(buddies) = 2

(* C6 as stated: for create, update and delete, when the request fails     *)
(* (transport failure, non-2xx status, or a response body that cannot be   *)
(* parsed) the collection is as before and an error is surfaced.           *)

C6_FailureAsStated ==
    (Mutation /\ (last.rejected \/ ~last.req.ok \/ ~last.req.parse)) =>
        /\ buddies = last.pre.buddies
        /\ Surfaced

\* the failures the handlers see: a rejected fetch, a non-2xx status, and,
\* for the create of the patch variant, a body res.json() cannot parse
Failed ==
    \/ last.rejected
    \/ ~last.req.ok
    \/ variant = "patch" /\ last.req.kind = "POST" /\ ~last.req.parse

(* C6 amended: for create, update and delete, when the fetch is rejected,  *)
(* the status is not 2xx, or (create of the patch variant) the body cannot *)
(* be parsed, the collection is as before and an error is surfaced.        *)

C6_FailureLeavesCollection ==
    (Mutation /\ Failed) =>
        /\ buddies = last.pre.buddies
        /\ Surfaced
        /\ last.kind \in {"addFail", "saveFail", "deleteFail"}

\* the server has rejected the delete of a listed record: it is still
\* listed and the alert was shown
C6_WitnessRejectedDelete ==
    /\ variant = "patch" /\ last.req.kind = "DELETE"
    /\ last.req.stage = "done" /\ ~last.req.ok /\ ~last.rejected
    /\ last.req.id \in Ids(buddies) /\ last.alert

(* C7: a save leaves edit mode only when the update succeeded; when the    *)
(* update fails the component is in Editing on the same record, editName   *)
(* and editAge as the user left them.                                      *)

C7_EditKeptOnFailure ==
    (last.req.kind = "PUT" /\ (last.rejected \/ ~last.req.ok)) =>
        /\ editing = last.pre.editing
        /\ editName = last.pre.editName
        /\ editAge = last.pre.editAge

\* the update carrying the typed name "c" was rejected by the server and
\* the row is still in Editing with "c" in its buffer
C7_WitnessRetry ==
    /\ last.req.kind = "PUT" /\ last.req.stage = "done" /\ ~last.req.ok
    /\ last.req.name = "c"
    /\ editing = last.req.id /\ editName = "c" /\ editAge = last.req.age

(* C8: a 2xx response to the PUT counts as success with or without a      *)
(* body: saveEdit replaces the record's fields (or re-lists), leaves edit  *)
(* mode and surfaces no error.                                             *)

C8_BodyOptional ==
    (last.req.kind = "PUT" /\ ~last.rejected /\ last.req.ok) =>
        /\ last.kind \in {"saveOk", "saveRelist"}
        /\ editing = NoEdit
        /\ ~last.alert
        /\ error = NoError

(* C9: a list response overwrites the local collection with its body       *)
(* whenever it arrives, also when requests started after it have already   *)
(* been answered: the collection is the body of the response that arrived  *)
(* last.                                                                   *)

C9_LastArrivalWins ==
    (variant = "relist" /\ last.kind = "listOk") => buddies = R_Map(last.req.list)

\* the mount's list, overtaken by a create and its re-list, arrives last:
\* every request has resolved successfully and the collection is the stale
\* body, without the created record
C9_WitnessStale ==
    /\ variant = "relist" /\ last.kind = "listOk" /\ last.req.seq = 1
    /\ nreq = 3 /\ net = {} /\ error = NoError
    /\ Len(db) = Len(buddies) + 1

(* C10: two creates in flight at once are both appended when they succeed, *)
(* each to the collection as it is when its response arrives, so the       *)
(* records appear in arrival order.                                        *)

C10_AppendInArrivalOrder ==
    (variant = "patch" /\ last.kind = "addOk") =>
        buddies = Append(last.pre.buddies, last.req.received)

\* both creates have succeeded and the one started first arrived last: its
\* record comes after the record of the one started second
C10_WitnessBothAppended ==
    /\ variant = "patch" /\ last.kind = "addOk" /\ last.req.seq = 2
    /\ nreq = 3 /\ net = {}
    /\ Len(buddies) >= 2
    /\ buddies[Len(buddies)] = last.req.received
    /\ buddies[Len(buddies) - 1].id \in {3, 4}
    /\ buddies[Len(buddies) - 1].id # last.req.received.id

(* C11: delete(id) sends its DELETE only after the user has answered yes to *)
(* confirm(...): when the step that has just sent a request sent a DELETE, *)
(* it was a confirmed delete; a declined delete sends nothing and leaves   *)
(* the collection, the error state and everything else of the component    *)
(* as it was.                                                              *)

C11_DeleteAfterConfirm ==
    /\ last.kind = "deleteDeclined" =>
         /\ Pre = last.pre
         /\ \A r \in net : r.seq <= last.pre.nreq
    /\ last.kind \in {"send", "deleteConfirmed"} =>
         \A r \in net :
             (r.kind = "DELETE" /\ r.seq = nreq) => last.kind = "deleteConfirmed"

\* the delete of one row was confirmed and is on the wire, the delete of a
\* row was then declined: still one DELETE, both records listed
C11_WitnessDeclined ==
    /\ last.kind = "deleteDeclined"
    /\ Cardinality({r \in net : r.kind = "DELETE"}) = 1
    /\ nreq = 2 /\ Len(buddies) = 2 /\ error = NoError

\* the rows of the grid rendered with inputs, Save and Cancel
EditingRows ==
    {k \in 1..Len(buddies) : P_EditRowShown(buddies[k].id) \/ R_EditRowShown(buddies[k].id)}

(* C12: at most one record of the local collection is rendered in Editing, *)
(* and startEdit on a record, also while another record is being edited,   *)
(* moves edit mode to that record with its name and age snapshotted into   *)
(* editName and editAge; the collection is untouched.                      *)

C12_OneEditingRow ==
    /\ Cardinality(EditingRows) <= 1
    /\ last.kind = "startEdit" =>
         /\ editing # NoEdit /\ editing # last.pre.editing
         /\ buddies = last.pre.buddies
         /\ \E k \in 1..Len(buddies) :
              /\ buddies[k].id = editing
              /\ editName = buddies[k].name
              /\ editAge = buddies[k].age
         /\ EditingRows # {} => \A k \in EditingRows : buddies[k].id = editing

\* record 1 was being edited with "c" typed into its name buffer; Edit was
\* clicked on record 2, which is now the one row in Editing with its own
\* name and age in the buffers
C12_WitnessSecondRecord ==
    /\ last.kind = "startEdit"
    /\ last.pre.editing = 1 /\ last.pre.editName = "c"
    /\ editing = 2 /\ editName = "b" /\ editAge = 2
    /\ Cardinality(EditingRows) = 1

\* a step of the component (the remote collection's steps are those that
\* answer a request)
ComponentStep == \A r \in net' \ net : r.stage = "sent"

\* a step of an edit session: startEdit, a change of an edit buffer,
\* cancelEdit
EditSessionStep ==
    /\ ComponentStep
    /\ \/ last'.kind \in {"startEdit", "cancelEdit"}
       \/ last'.kind = "input" /\ (editName' # editName \/ editAge' # editAge)

(* C13: entering edit mode, changing the edit buffers and canceling send   *)
(* no request and leave every record of the local collection as it was:    *)
(* each of these steps leaves the collection and the wire untouched, and   *)
(* cancelEdit leaves no row in Editing.                                    *)

C13_CancelLeavesRecords ==
    [][EditSessionStep =>
          /\ buddies' = buddies
          /\ net' = net /\ nreq' = nreq
          /\ last'.kind = "cancelEdit" => (editing' = NoEdit /\ EditingRows' = {})]_vars

\* after the first listing, record 1 was put in edit mode, "c" and 3 were
\* typed into its buffers and the edit was canceled: no second request, no
\* row in Editing, the two records as listed
C13_WitnessCanceled ==
    /\ last.kind = "cancelEdit" /\ editName = "c" /\ editAge = 3
    /\ editing = NoEdit /\ EditingRows = {}
    /\ nreq = 1 /\ net = {}
    /\ buddies = <<Buddy(1, "a", 1), Buddy(2, "b", 2)>>

(* C14: when a list request fails (the fetch is rejected, the status is    *)
(* not 2xx, or the body cannot be parsed) the error message is set and not *)
(* empty, the loading flag is cleared and the collection is what it was    *)
(* before the failure arrived: empty when no other request was ever sent.  *)

C14_ListFailureKeepsCollection ==
    last.kind = "listFail" =>
        /\ last.req.kind = "GET"
        /\ error # NoError /\ error # ""
        /\ ~isLoading
        /\ buddies = last.pre.buddies
        /\ nreq = 1 => buddies = <<>>

\* the re-list that follows a successful delete was lost in transport: the
\* two records listed before are still the collection, the error is set
\* and the spinner is gone
C14_WitnessRelistLost ==
    /\ last.kind = "listFail" /\ last.rejected /\ last.req.caller = "delete"
    /\ Len(buddies) = 2 /\ Len(db) = 1
    /\ error # NoError /\ ~isLoading

(* C15: when a list request succeeds the local collection becomes exactly  *)
(* the records of the response, in the response's order, in both variants: *)
(* nothing of the previous collection survives unless the response has it, *)
(* an empty response gives an empty collection, and the continuation sets  *)
(* no error.                                                               *)

C15_ListReplacesCollection ==
    last.kind = "listOk" =>
        /\ buddies = (IF variant = "relist" THEN R_Map(last.req.list) ELSE last.req.list)
        /\ Ids(buddies) \ Ids(last.req.list) = {}
        /\ last.req.list = <<>> => buddies = <<>>
        /\ error = last.pre.error
        /\ ~isLoading

\* two records were listed, one was deleted, and the re-list answered with
\* the one that is left: the deleted record has not survived and no error
\* is set
C15_WitnessRecordDropped ==
    /\ last.kind = "listOk" /\ last.req.caller = "delete"
    /\ Len(last.pre.buddies) = 2 /\ Len(buddies) = 1
    /\ last.req.id \notin Ids(buddies)
    /\ error = NoError

\* the last step handled a request that failed
RequestFailed == last.kind \in {"listFail", "addFail", "saveFail", "deleteFail"}

(* C16 as stated: no failure is retried (the step that handles a failed    *)
(* request sends nothing) and the component keeps accepting actions: its   *)
(* add form is still rendered.                                             *)

C16_NoRetryAsStated ==
    RequestFailed =>
        /\ nreq = last.pre.nreq
        /\ NewInputsShown

(* C16 amended: the step that handles a failed request sends nothing, so   *)
(* a request follows a failure only when the user starts a new action; the *)
(* add form stays rendered after every failure but the failed list of the  *)
(* patch variant, which leaves the error view alone on the page, with no   *)
(* form and no row.                                                        *)

C16_NoRetry ==
    RequestFailed =>
        /\ nreq = last.pre.nreq
        /\ \A r \in net : r.seq <= last.pre.nreq
        /\ IF variant = "patch" /\ last.kind = "listFail"
           THEN ~NewInputsShown /\ EditingRows = {} /\ error # NoError
           ELSE NewInputsShown

\* a create was answered with a non-2xx status: its handler has finished,
\* nothing is on the wire, no request was sent since the create, and the
\* form is still there with the inputs as typed
C16_WitnessNothingSent ==
    /\ last.kind = "addFail" /\ ~last.rejected /\ ~last.req.ok
    /\ nreq = 2 /\ net = {}
    /\ NewInputsShown /\ newName = "c" /\ newAge = 3

\* the decimal text of a number
RECURSIVE Numeral(_)
Numeral(n) ==
    IF n < 10 THEN <<DigitChars[n + 1]>>
    ELSE Append(Numeral(n \div 10), DigitChars[(n % 10) + 1])

\* the badge just rendered shows the age n
BadgeOf(n) ==
    /\ last.kind = "getAgeColor"
    /\ buddies[last.row].age = (IF variant = "relist" THEN Numeral(n) ELSE n)

\* the three bands: below 20, 20 up to 40, 40 and above
Band(n) ==
    CASE n < 20 -> "color-young"
      [] n >= 20 /\ n < 40 -> "color-middle"
      [] n >= 40 -> "color-old"

(* C17: getAgeColor puts every age in one of three bands: below 20 young,  *)
(* from 20 up to but not including 40 middle, 40 and above old; 19 is      *)
(* young, 20 and 39 are middle, 40 is old; rendering the badge leaves the  *)
(* stored records as they were.                                            *)

C17_AgeBands ==
    last.kind = "getAgeColor" =>
        /\ buddies = last.pre.buddies
        /\ last.color \in {"color-young", "color-middle", "color-old"}
        /\ \A n \in 0..MaxAge : BadgeOf(n) => last.color = Band(n)
        /\ BadgeOf(19) => last.color = "color-young"
        /\ BadgeOf(20) \/ BadgeOf(39) => last.color = "color-middle"
        /\ BadgeOf(40) => last.color = "color-old"

\* the relist variant has rendered the badge of the age "20": middle
C17_WitnessTwenty ==
    /\ variant = "relist" /\ BadgeOf(20)
    /\ buddies[1].age = <<"2", "0">>
    /\ last.color = "color-middle"

\* the list requests that have not resolved
ListsInFlight == {r \in net : r.kind = "GET"}

\* a step that has just called fetchBuddies: the request it sent is the
\* newest one
ListStarted ==
    /\ last.kind \in {"send", "addRelist", "saveRelist", "deleteRelist"}
    /\ \E r \in ListsInFlight : r.seq = nreq

\* Idle -> Loading -> {Loaded | LoadFailed}, as far as a state shows it
LoadingStates ==
    /\ ListStarted => isLoading
    /\ isLoading => (~mounted \/ ListsInFlight # {})
    /\ (mounted /\ ListsInFlight = {}) => ~isLoading
    /\ last.kind = "listOk" =>
         ~isLoading /\ buddies = (IF variant = "relist" THEN R_Map(last.req.list)
                                                        ELSE last.req.list)
    /\ last.kind = "listFail" => ~isLoading /\ error # NoError

(* C18: starting a list request sets the loading flag; the delivery of a   *)
(* list response or failure leaves the flag cleared, with the collection   *)
(* replaced (Loaded) or the error message set (LoadFailed); the flag is    *)
(* never set once every list request has resolved; and, the mount callback *)
(* running and every fetch settling, Loading always comes to an end.       *)

C18_LoadingEnds == []LoadingStates /\ (isLoading ~> ~isLoading)

\* the mount's list was delivered (Loaded), a create re-listed (Loading)
\* and that list failed (LoadFailed): nothing is in flight, the spinner is
\* gone, the records of the first list are shown under the error
C18_WitnessLoadFailed ==
    /\ last.kind = "listFail" /\ last.req.caller = "add" /\ last.pre.isLoading
    /\ nreq = 3 /\ net = {}
    /\ ~isLoading /\ error # NoError /\ Len(buddies) = 2

(* C19: when an update succeeds, the name and age written into the local   *)
(* record are those sent in the body of that PUT, whatever happened to the *)
(* edit buffers between the send and the response.                         *)

C19_WritesWhatWasSent ==
    (variant = "patch" /\ last.kind = "saveOk") =>
        \A k \in 1..Len(buddies) :
            buddies[k].id = last.req.id =>
                buddies[k].name = last.req.name /\ buddies[k].age = last.req.age

(* C20: whenever a record is in edit mode (editingId or editingBuddy is    *)
(* not null) a record with that id is in the local collection.             *)

C20_EditedRecordListed ==
    editing # NoEdit => editing \in Ids(buddies)

(* C21: the successful response to a save of record A ends edit mode for   *)
(* record A only: when another record B is in Editing as the response      *)
(* arrives, B stays in Editing with editName and editAge as they were.     *)

C21_SaveEndsOwnEditOnly ==
    (/\ last.kind \in {"saveOk", "saveRelist"}
     /\ last.pre.editing # NoEdit
     /\ last.pre.editing # last.req.id) =>
        /\ editing = last.pre.editing
        /\ editName = last.pre.editName
        /\ editAge = last.pre.editAge

====
